---- MODULE Spec2Model ----
(***************************************************************************)
(* Resilience / recovery core of the Bongo Cat desktop companion (Electron *)
(* main process): suspend/resume tracking, the serial-device reconnect     *)
(* supervisor and the keyboard-listener recovery supervisor, both driven   *)
(* by bounded exponential backoff.                                         *)
(*                                                                         *)
(* Every handler runs to its next await on the single event loop, so one   *)
(* action is one synchronous slice of a handler: from its entry (or from   *)
(* the completion of the collaborator call it awaits) to its next await or *)
(* its return.  The serial manager and the keyboard monitor are separate   *)
(* modules; their calls are modelled by their documented interface.        *)
(***************************************************************************)
EXTENDS Integers, Sequences, FiniteSets, Bags, TLC

\* ---------------------------------------------------------------- constants
RESUME_RETRY_BASE_DELAY_MS == 1000
RESUME_RETRY_MAX_DELAY_MS == 30000
RESUME_RETRY_LIMIT == 10
KEYBOARD_RECOVERY_BASE_DELAY_MS == 2000
KEYBOARD_RECOVERY_MAX_DELAY_MS == 60000
KEYBOARD_RECOVERY_LIMIT == 5

\* ------------------------------------------------------------------- bounds
\* serial ports that exist on the host
NumPorts == 1
\* attemptResumeReconnect invocations that may be awaiting a collaborator
MaxDevInFlight == 2
\* keyboard stop/start sequences that may be awaiting the keyboard monitor
MaxKbdInFlight == 2
\* cap of keyboardRecoveryAttempts (fallback events can re-arm it for ever)
MaxKbdAttempts == 6

\* stats events the collaborators emit in the model, and the largest value
\* such an event carries
MaxStatsEvents == 3
MaxStatValue == 1

\* keystrokes a typing session counts in the model
MaxKeystrokes == 2

Ports == 1..NumPorts
\* null for a port
NoPort == 0

\* ------------------------------------------------------------------ helpers
RECURSIVE MathPow2(_)
MathPow2(e) == IF e <= 0 THEN 1 ELSE 2 * MathPow2(e - 1)

MathMin(a, b) == IF a <= b THEN a ELSE b

\* A timer of the event loop.  `by` is the number of the failed attempt whose
\* catch block armed it, 0 when a handler armed it with the base delay.
Timer(delayMs, by) == [delay |-> delayMs, by |-> by]
\* null for a timer handle
NoTimer == [delay |-> 0, by |-> 0]

\* One line of the console: the event of the last step, the attempt number it
\* prints, and for a timer callback the delay and origin of the fired timer.
Log(ev, n, d, by) == [ev |-> ev, n |-> n, d |-> d, by |-> by, why |-> ""]
\* the line of a failed attempt, with the error it prints
LogError(ev, n, why) == [ev |-> ev, n |-> n, d |-> 0, by |-> 0, why |-> why]

VARIABLES
    systemSuspended,          \* let systemSuspended
    pendingResumePort,        \* let pendingResumePort
    resumeReconnectTimer,     \* let resumeReconnectTimer (the handle)
    resumeReconnectAttempts,  \* let resumeReconnectAttempts
    keyboardRecoveryTimer,    \* let keyboardRecoveryTimer (the handle)
    keyboardRecoveryAttempts, \* let keyboardRecoveryAttempts
    devTimers,                \* armed setTimeout timers of the device supervisor
    kbdTimers,                \* armed setTimeout timers of the keyboard supervisor
    devProcs,                 \* bag of attemptResumeReconnect calls at an await
    kbdProcs,                 \* bag of keyboard stop/start sequences at an await
    isConnected,              \* serial manager: getConnectionStatus().isConnected
    connPort,                 \* serial manager: getConnectionStatus().port
    availablePorts,           \* ports the OS currently enumerates
    kmActive,                 \* keyboard monitor: isActive()
    kmListener,               \* keyboard monitor: keyboardListener handle present
    kmFallback,               \* keyboard monitor: fallbackMode
    kmSession,                \* keyboard monitor: currentSession
    lastSystemStats,          \* let lastSystemStats of setupEventForwarding
    lastTypingStats,          \* let lastTypingStats of setupEventForwarding
    statsEvents,              \* the system-stats and typing-stats events emitted so far
    serialSent,               \* sendCombinedStats calls made by the last stats tick
    mainWindow,               \* let mainWindow: "null", "open" or "destroyed"
    emitted,                  \* the eventEmitter events emitted by the last step
    uiSent,                   \* mainWindow.webContents.send calls made by the last step
    systemMonitor,            \* the SystemMonitor instance
    inUse,                    \* what the host and the user make use of, see Init
    lastLog                   \* what the last step printed

devVars == <<pendingResumePort, resumeReconnectTimer, resumeReconnectAttempts,
             devTimers, devProcs, isConnected, connPort, availablePorts>>
kbdVars == <<keyboardRecoveryTimer, keyboardRecoveryAttempts, kbdTimers,
             kbdProcs, kmActive, kmListener, kmFallback, kmSession>>
statsVars == <<lastSystemStats, lastTypingStats, statsEvents, serialSent>>
uiVars == <<mainWindow, emitted, uiSent>>
vars == <<systemSuspended, devVars, kbdVars, statsVars, uiVars, systemMonitor, inUse, lastLog>>

\* ------------------------------------------------------------ UI forwarding
\* an event on eventEmitter, and a webContents.send(channel, data) call
Event(channel, data) == [channel |-> channel, data |-> data]
\* the events of the collaborators
ConnectionChange(connected, port) ==
    Event("connection-change", [connected |-> connected, port |-> port])
KeyboardFallbackData == [fallbackMode |-> TRUE]
SerialData(v) == [line |-> v]

\* the guarded send of every handler that forwards, without its guard
ForwardToUiUnguarded(window, events) == events

\* `if (mainWindow && !mainWindow.isDestroyed()) mainWindow.webContents.send(...)`
\* of the handlers of setupEventForwarding, applied to the events of one step
ForwardToUi(window, events) == IF window = "open" THEN events ELSE << >>

\* the collaborators emit `events` during a step and the handlers forward them
Emits(events) ==
    /\ emitted' = events
    /\ uiSent' = ForwardToUi(mainWindow, events)

\* ------------------------------------------------------------ retry timers
\* The handle variable of a supervisor together with the timers it has armed.
TimerState(handle, armed) == [h |-> handle, armed |-> armed]
DevTimerState == TimerState(resumeReconnectTimer, devTimers)
KbdTimerState == TimerState(keyboardRecoveryTimer, kbdTimers)
\* the timer t has fired: it is armed no more, the handle variable keeps its value
Fired(ts, t) == TimerState(ts.h, ts.armed \ {t})

\* clearResumeReconnectTimer without `resumeReconnectTimer = null`
ClearResumeReconnectTimerKeepsHandle(ts) == TimerState(ts.h, ts.armed \ {ts.h})

\* clearResumeReconnectTimer()
ClearResumeReconnectTimer(ts) ==
    IF ts.h # NoTimer THEN TimerState(NoTimer, ts.armed \ {ts.h}) ELSE ts

\* clearKeyboardRecoveryTimer()
ClearKeyboardRecoveryTimer(ts) ==
    IF ts.h # NoTimer THEN TimerState(NoTimer, ts.armed \ {ts.h}) ELSE ts

\* scheduleResumeReconnect without its systemSuspended check
ScheduleResumeReconnectUngated(ts, susp, delayMs, by) ==
    LET cleared == ClearResumeReconnectTimer(ts) IN
    TimerState(Timer(delayMs, by), cleared.armed \cup {Timer(delayMs, by)})

\* scheduleResumeReconnect without its call of clearResumeReconnectTimer
ScheduleResumeReconnectNoCancel(ts, susp, delayMs, by) ==
    IF susp
    THEN ts
    ELSE TimerState(Timer(delayMs, by), ts.armed \cup {Timer(delayMs, by)})

\* scheduleResumeReconnect(delayMs), called while systemSuspended = susp
ScheduleResumeReconnect(ts, susp, delayMs, by) ==
    IF susp
    THEN ts
    ELSE LET cleared == ClearResumeReconnectTimer(ts) IN
         TimerState(Timer(delayMs, by), cleared.armed \cup {Timer(delayMs, by)})

\* scheduleKeyboardRecovery(delayMs), called while systemSuspended = susp
ScheduleKeyboardRecovery(ts, susp, delayMs, by) ==
    IF susp
    THEN ts
    ELSE LET cleared == ClearKeyboardRecoveryTimer(ts) IN
         TimerState(Timer(delayMs, by), cleared.armed \cup {Timer(delayMs, by)})

SetDevTimers(ts) == resumeReconnectTimer' = ts.h /\ devTimers' = ts.armed
SetKbdTimers(ts) == keyboardRecoveryTimer' = ts.h /\ kbdTimers' = ts.armed

\* ------------------------------------------------- device reconnect supervisor
\* An attemptResumeReconnect call suspended at an await: pc "ports" awaits
\* getAvailablePorts(), pc "connect" awaits connectToDevice(port).
DevProc(pc, n, port) == [pc |-> pc, n |-> n, port |-> port]

\* nextDelay with the exponent taken from the attempt counter after increment
\* instead of attemptNumber - 1
ResumeNextDelayExponentOff(attemptNumber) ==
    MathMin(RESUME_RETRY_BASE_DELAY_MS * MathPow2(attemptNumber),
            RESUME_RETRY_MAX_DELAY_MS)

\* nextDelay without the Math.min cap
ResumeNextDelayUncapped(attemptNumber) ==
    RESUME_RETRY_BASE_DELAY_MS * MathPow2(attemptNumber - 1)

\* nextDelay of the catch block of attemptResumeReconnect
ResumeNextDelay(attemptNumber) ==
    MathMin(RESUME_RETRY_BASE_DELAY_MS * MathPow2(attemptNumber - 1),
            RESUME_RETRY_MAX_DELAY_MS)

\* What made an attempt fail: the pending port is not among the enumerated
\* ports, getAvailablePorts() threw, or connectToDevice() threw.
NotYetAvailable == "port not yet available"
PortsThrew == "getAvailablePorts threw"
ConnectThrew == "connectToDevice threw"

\* the catch block without its call of scheduleResumeReconnect
ResumeReconnectFailedNoRetry(attemptNumber, why) ==
    /\ SetDevTimers(ClearResumeReconnectTimer(DevTimerState))
    /\ lastLog' = LogError("devFailed", attemptNumber, why)

\* the catch block of attemptResumeReconnect, for the attempt numbered
\* attemptNumber, which failed because of `why`
ResumeReconnectFailed(attemptNumber, why) ==
    IF attemptNumber >= RESUME_RETRY_LIMIT
    THEN /\ SetDevTimers(ClearResumeReconnectTimer(DevTimerState))
         /\ lastLog' = LogError("devExhausted", attemptNumber, why)
    ELSE /\ SetDevTimers(ScheduleResumeReconnect(DevTimerState, systemSuspended,
                             ResumeNextDelay(attemptNumber), attemptNumber))
         /\ lastLog' = LogError("devFailed", attemptNumber, why)

\* the end of the try block without `pendingResumePort = null`: the port that
\* the connection-change handler recorded stays
ReconnectSucceededKeepsPort(port) ==
    /\ pendingResumePort' = port
    /\ resumeReconnectAttempts' = 0
    /\ SetDevTimers(ClearResumeReconnectTimer(DevTimerState))

\* the end of the try block of attemptResumeReconnect, after connectToDevice(port)
\* returned: its connection-change event, if any, has recorded the port
ReconnectSucceeded(port) ==
    /\ pendingResumePort' = NoPort
    /\ resumeReconnectAttempts' = 0
    /\ SetDevTimers(ClearResumeReconnectTimer(DevTimerState))

\* The reconnect timer fires: attemptResumeReconnect() up to its first await.
ResumeTimerFires ==
    \E t \in devTimers :
        LET ts == Fired(DevTimerState, t) IN
        /\ IF pendingResumePort = NoPort \/ systemSuspended
           THEN /\ SetDevTimers(ts)
                /\ lastLog' = Log("devSkipped", 0, t.delay, t.by)
                /\ UNCHANGED <<pendingResumePort, resumeReconnectAttempts, devProcs>>
           ELSE IF isConnected
           THEN /\ pendingResumePort' = NoPort
                /\ resumeReconnectAttempts' = 0
                /\ SetDevTimers(ClearResumeReconnectTimer(ts))
                /\ lastLog' = Log("devAlreadyConnected", 0, t.delay, t.by)
                /\ UNCHANGED devProcs
           ELSE /\ BagCardinality(devProcs) < MaxDevInFlight
                /\ resumeReconnectAttempts' = resumeReconnectAttempts + 1
                /\ devProcs' = devProcs (+)
                       SetToBag({DevProc("ports", resumeReconnectAttempts + 1, NoPort)})
                /\ SetDevTimers(ts)
                /\ lastLog' = Log("devStart", resumeReconnectAttempts + 1, t.delay, t.by)
                /\ UNCHANGED pendingResumePort
        /\ Emits(<< >>)
        /\ UNCHANGED <<inUse, statsVars, mainWindow, systemMonitor, systemSuspended, isConnected, connPort, availablePorts, kbdVars>>

\* the attempt that does not look for the pending port among the ports
MatchingPortUnchecked(ports, pending) == TRUE

\* ports.find(port => port.path === pendingResumePort)
MatchingPort(ports, pending) == pending \in ports

\* getAvailablePorts() completes for an attempt: it throws, or it returns the
\* enumerated ports, among which the attempt looks for pendingResumePort.
PortsEnumerated ==
    \E p \in BagToSet(devProcs) : \E throws \in BOOLEAN :
        /\ "serialHangs" \notin inUse
        /\ p.pc = "ports"
        /\ IF ~throws /\ MatchingPort(availablePorts, pendingResumePort)
           THEN /\ devProcs' = (devProcs (-) SetToBag({p})) (+)
                       SetToBag({DevProc("connect", p.n, pendingResumePort)})
                /\ lastLog' = Log("devConnecting", p.n, 0, 0)
                /\ UNCHANGED <<resumeReconnectTimer, devTimers>>
           ELSE /\ devProcs' = devProcs (-) SetToBag({p})
                /\ ResumeReconnectFailed(p.n, IF throws THEN PortsThrew
                                                ELSE NotYetAvailable)
        /\ Emits(<< >>)
        /\ UNCHANGED <<inUse, statsVars, mainWindow, systemMonitor, systemSuspended, pendingResumePort, resumeReconnectAttempts,
                       isConnected, connPort, availablePorts, kbdVars>>

\* connectToDevice(port) of the serial manager: it opens the port and emits
\* connection-change {connected, port}, or returns {success: false}, or throws.
ConnectOutcomes == {"ok", "nosuccess", "throws"}
ConnectCanSucceed(port) == port \in availablePorts /\ ~isConnected

\* connectToDevice() completes for an attempt, and the attempt runs to its end.
ConnectCompleted ==
    \E p \in BagToSet(devProcs) : \E r \in ConnectOutcomes :
        /\ "serialHangs" \notin inUse
        /\ p.pc = "connect"
        /\ r = "ok" => ConnectCanSucceed(p.port)
        /\ devProcs' = devProcs (-) SetToBag({p})
        /\ IF r = "throws"
           THEN /\ ResumeReconnectFailed(p.n, ConnectThrew)
                /\ UNCHANGED <<pendingResumePort, resumeReconnectAttempts,
                               isConnected, connPort>>
           ELSE /\ isConnected' = (IF r = "ok" THEN TRUE ELSE isConnected)
                /\ connPort' = (IF r = "ok" THEN p.port ELSE connPort)
                /\ ReconnectSucceeded(p.port)
                /\ lastLog' = Log(IF r = "ok" THEN "devReconnected" ELSE "devNoSuccess",
                                  p.n, 0, 0)
        /\ Emits(IF r = "ok" THEN <<ConnectionChange(TRUE, p.port)>> ELSE << >>)
        /\ UNCHANGED <<inUse, statsVars, mainWindow, systemMonitor, systemSuspended, availablePorts, kbdVars>>

\* --------------------------------------------------- serial ports and the user
\* The device is plugged in or comes back after sleep: the OS enumerates it.
PortAppears ==
    \E port \in Ports \ availablePorts :
        /\ "device" \in inUse
        /\ availablePorts' = availablePorts \cup {port}
        /\ lastLog' = Log("portAppears", port, 0, 0)
        /\ Emits(<< >>)
        /\ UNCHANGED <<inUse, statsVars, mainWindow, systemMonitor, systemSuspended, pendingResumePort, resumeReconnectTimer,
                       resumeReconnectAttempts, devTimers, devProcs, isConnected,
                       connPort, kbdVars>>

\* The device goes away; an open connection on it is lost.
PortDisappears ==
    \E port \in availablePorts :
        /\ availablePorts' = availablePorts \ {port}
        /\ isConnected' = (isConnected /\ connPort # port)
        /\ connPort' = (IF connPort = port THEN NoPort ELSE connPort)
        /\ lastLog' = Log("portDisappears", port, 0, 0)
        /\ Emits(IF isConnected /\ connPort = port
                 THEN <<ConnectionChange(FALSE, NoPort)>> ELSE << >>)
        /\ UNCHANGED <<inUse, statsVars, mainWindow, systemMonitor, systemSuspended, pendingResumePort, resumeReconnectTimer,
                       resumeReconnectAttempts, devTimers, devProcs, kbdVars>>

\* ipcMain.handle('connect-to-device') succeeding: the serial manager emits
\* connection-change {connected: true, port}, whose handler records the port.
IpcConnectToDevice ==
    \E port \in Ports :
        /\ ConnectCanSucceed(port)
        /\ isConnected' = TRUE
        /\ connPort' = port
        /\ pendingResumePort' = port
        /\ lastLog' = Log("ipcConnect", port, 0, 0)
        /\ Emits(<<ConnectionChange(TRUE, port)>>)
        /\ UNCHANGED <<inUse, statsVars, mainWindow, systemMonitor, systemSuspended, resumeReconnectTimer, resumeReconnectAttempts,
                       devTimers, devProcs, availablePorts, kbdVars>>

\* ipcMain.handle('disconnect-device'): connection-change {connected: false}
IpcDisconnectDevice ==
    /\ isConnected
    /\ isConnected' = FALSE
    /\ connPort' = NoPort
    /\ lastLog' = Log("ipcDisconnect", 0, 0, 0)
    /\ Emits(<<ConnectionChange(FALSE, NoPort)>>)
    /\ UNCHANGED <<inUse, statsVars, mainWindow, systemMonitor, systemSuspended, pendingResumePort, resumeReconnectTimer,
                   resumeReconnectAttempts, devTimers, devProcs, availablePorts,
                   kbdVars>>

\* ------------------------------------------------------- keyboard monitor
\* State of the keyboard monitor that the supervisor inspects.
KmState(active, listener, fallback) ==
    [active |-> active, listener |-> listener, fallback |-> fallback]
KmNow == KmState(kmActive, kmListener, kmFallback)
SetKm(km) ==
    /\ kmActive' = km.active
    /\ kmListener' = km.listener
    /\ kmFallback' = km.fallback

\* stopMonitoring(): the listener is killed, or the call throws.
StopOutcomes == {"ok", "throws"}
KmAfterStop(km, r) ==
    IF r = "ok" THEN KmState(FALSE, FALSE, km.fallback) ELSE km

\* startMonitoring(): the native listener starts ("ok"); or it cannot be used and
\* the monitor engages fallback mode, emitting keyboard-fallback, and then
\* returns ("fallback") or throws ("throws").
StartOutcomes == {"ok", "fallback", "throws"}
KmAfterStart(km, r) ==
    CASE r = "ok" -> KmState(TRUE, TRUE, FALSE)
      [] r = "fallback" -> KmState(TRUE, FALSE, TRUE)
      [] OTHER -> KmState(FALSE, FALSE, TRUE)
EmitsFallback(r) == r # "ok"

\* currentSession of the keyboard monitor.  Timestamps are counted in
\* keystrokes: the j-th keystroke of a session happens at time j.
Null == -1
Session(totalKeystrokes, startTime, lastKeystrokeTime) ==
    [exists |-> TRUE, totalKeystrokes |-> totalKeystrokes,
     startTime |-> startTime, lastKeystrokeTime |-> lastKeystrokeTime]
\* currentSession is null
NoSession ==
    [exists |-> FALSE, totalKeystrokes |-> 0, startTime |-> Null,
     lastKeystrokeTime |-> 0]
\* the session object startMonitoring() creates
FreshSession == Session(0, Null, 0)
\* startMonitoring() creates a fresh session unless it throws
SessionAfterStart(session, r) == IF r = "throws" THEN session ELSE FreshSession
\* a keystroke is counted in the session
SessionAfterKeystroke(session) ==
    Session(session.totalKeystrokes + 1,
            IF session.startTime = Null THEN session.totalKeystrokes + 1
            ELSE session.startTime,
            session.totalKeystrokes + 1)

\* x || 0
OrZero(x) == IF x = Null \/ x = 0 THEN 0 ELSE x
\* x ?? null
NullishToNull(x) == IF x = Null THEN Null ELSE x

\* the splice that copies totalKeystrokes only
SpliceSessionCountOnly(current, previousSession) ==
    IF previousSession.exists /\ current.exists
    THEN Session(OrZero(previousSession.totalKeystrokes), current.startTime,
                 current.lastKeystrokeTime)
    ELSE current

\* restartKeyboardMonitoring after startMonitoring() returned: the counters of
\* previousSession are written into the new currentSession
SpliceSession(current, previousSession) ==
    IF previousSession.exists /\ current.exists
    THEN Session(OrZero(previousSession.totalKeystrokes),
                 NullishToNull(previousSession.startTime),
                 OrZero(previousSession.lastKeystrokeTime))
    ELSE current

\* the keyboard-fallback handler scheduling whether or not the system is suspended
OnKeyboardFallbackUngated(ts, susp) ==
    ScheduleKeyboardRecovery(ts, FALSE, KEYBOARD_RECOVERY_BASE_DELAY_MS, 0)

\* eventEmitter.on('keyboard-fallback'): its effect on the recovery timer
OnKeyboardFallback(ts, susp) ==
    ScheduleKeyboardRecovery(ts, susp, KEYBOARD_RECOVERY_BASE_DELAY_MS, 0)

\* ------------------------------------------------------- stats multiplexer
\* the stats objects the collaborators emit
SystemStats(v) == [cpu |-> v, memory |-> v]
TypingStats(v) == [wpm |-> v, isActive |-> v > 0]
StatsEvent(name, stats) == [name |-> name, stats |-> stats]

\* eventEmitter.on('system-stats'): the new value of lastSystemStats
OnSystemStats(cached, stats) == stats
\* eventEmitter.on('typing-stats'): the new value of lastTypingStats
OnTypingStats(cached, stats) == stats

\* the statsInterval callback that sends whether or not the device is connected
TickSendsAlways(connected, sys, typing) == <<[sys |-> sys, typing |-> typing]>>
\* the statsInterval callback that sends the initial system stats
TickSendsInitialSystemStats(connected, sys, typing) ==
    IF connected THEN <<[sys |-> SystemStats(0), typing |-> typing]>> ELSE << >>

\* the statsInterval callback: the sendCombinedStats calls it makes
TickSends(connected, sys, typing) ==
    IF connected THEN <<[sys |-> sys, typing |-> typing]>> ELSE << >>

\* the system monitor emits system-stats
SystemStatsEvent ==
    \E v \in 0..MaxStatValue :
        /\ Len(statsEvents) < MaxStatsEvents
        /\ statsEvents' = Append(statsEvents, StatsEvent("system-stats", SystemStats(v)))
        /\ lastSystemStats' = OnSystemStats(lastSystemStats, SystemStats(v))
        /\ lastLog' = Log("system-stats", v, 0, 0)
        /\ Emits(<<Event("system-stats", SystemStats(v))>>)
        /\ UNCHANGED <<inUse, mainWindow, systemMonitor, systemSuspended, devVars, kbdVars, lastTypingStats,
                       serialSent>>

\* the keyboard monitor emits typing-stats
TypingStatsEvent ==
    \E v \in 0..MaxStatValue :
        /\ Len(statsEvents) < MaxStatsEvents
        /\ statsEvents' = Append(statsEvents, StatsEvent("typing-stats", TypingStats(v)))
        /\ lastTypingStats' = OnTypingStats(lastTypingStats, TypingStats(v))
        /\ lastLog' = Log("typing-stats", v, 0, 0)
        /\ Emits(<<Event("typing-stats", TypingStats(v))>>)
        /\ UNCHANGED <<inUse, mainWindow, systemMonitor, systemSuspended, devVars, kbdVars, lastSystemStats,
                       serialSent>>

\* the statsInterval callback runs (every 1000 ms)
StatsTick ==
    /\ serialSent' = TickSends(isConnected, lastSystemStats, lastTypingStats)
    /\ lastLog' = Log("statsTick", 0, 0, 0)
    /\ Emits(<< >>)
    /\ UNCHANGED <<inUse, mainWindow, systemMonitor, systemSuspended, devVars, kbdVars, lastSystemStats,
                   lastTypingStats, statsEvents>>

\* --------------------------------------------------------- system monitor
\* startMonitoring() calls that may be at their await at a time
MaxStartsInFlight == 2
\* setInterval timers that may run at a time
MaxIntervalTimers == 3

\* values of the interval that settings and callers supply
IntervalInputs == {0, 99, 100, 5000, 10000, 10001}

\* new SystemMonitor(eventEmitter).  `starting` counts the startMonitoring()
\* calls that are at their await; `timers` is the bag of the periods of the
\* setInterval timers that run; monitoringInterval, the handle, is the period
\* of the timer it refers to.
NewSystemMonitor ==
    [updateInterval |-> 1000, isMonitoring |-> FALSE, monitoringInterval |-> Null,
     starting |-> 0, timers |-> EmptyBag]

\* startMonitoring(interval) up to `await this.updateSystemStats()`
StartMonitoringCalled(m, interval) ==
    IF m.isMonitoring THEN m
    ELSE [m EXCEPT !.updateInterval = interval, !.starting = m.starting + 1]

\* startMonitoring after its await that keeps a running timer instead of
\* creating a second one
StartMonitoringResumedReusesTimer(m, r) ==
    IF r = "ok"
    THEN [m EXCEPT !.monitoringInterval = m.updateInterval, !.isMonitoring = TRUE,
                   !.starting = m.starting - 1,
                   !.timers = SetToBag({m.updateInterval})]
    ELSE [m EXCEPT !.starting = m.starting - 1]

\* startMonitoring after its await: updateSystemStats() returned ("ok") or
\* threw; setInterval creates a timer and the handle is overwritten
StartMonitoringResumed(m, r) ==
    IF r = "ok"
    THEN [m EXCEPT !.monitoringInterval = m.updateInterval, !.isMonitoring = TRUE,
                   !.starting = m.starting - 1,
                   !.timers = m.timers (+) SetToBag({m.updateInterval})]
    ELSE [m EXCEPT !.starting = m.starting - 1]

\* the monitor once startMonitoring(interval) has returned
SystemMonitorStarted(m, interval) ==
    StartMonitoringResumed(StartMonitoringCalled(m, interval), "ok")

\* stopMonitoring()
StopMonitoring(m) ==
    IF ~m.isMonitoring THEN m
    ELSE [m EXCEPT !.monitoringInterval = Null, !.isMonitoring = FALSE,
                   !.timers = IF m.monitoringInterval # Null
                              THEN m.timers (-) SetToBag({m.monitoringInterval})
                              ELSE m.timers]

\* the body of the method updateInterval(newInterval) of the class
UpdateIntervalMethod(m, newInterval) ==
    IF newInterval < 100 \/ newInterval > 10000
    THEN [monitor |-> m, threw |-> "Error"]
    ELSE [monitor |-> IF m.isMonitoring
                      THEN StartMonitoringCalled(
                               StopMonitoring([m EXCEPT !.updateInterval = newInterval]),
                               newInterval)
                      ELSE [m EXCEPT !.updateInterval = newInterval],
          threw |-> "none"]

\* systemMonitor.updateInterval(ms) on an instance.  The constructor and
\* startMonitoring assign this.updateInterval, an own data property of the
\* instance with the name of the method: the property lookup finds the number,
\* and calling it throws a TypeError before the method body runs.
CallUpdateInterval(m, ms) ==
    IF "updateInterval" \in DOMAIN m
    THEN [monitor |-> m, threw |-> "TypeError"]
    ELSE UpdateIntervalMethod(m, ms)

\* ipcMain.handle('start-monitoring') up to the await of startMonitoring
IpcStartMonitoring ==
    \E interval \in IntervalInputs :
        /\ systemMonitor.starting < MaxStartsInFlight
        /\ BagCardinality(systemMonitor.timers) + systemMonitor.starting < MaxIntervalTimers
        /\ systemMonitor' = StartMonitoringCalled(systemMonitor, interval)
        /\ lastLog' = Log("startMonitoring", interval, 0, 0)
        /\ Emits(<< >>)
        /\ UNCHANGED <<inUse, statsVars, mainWindow, systemSuspended, devVars, kbdVars>>

\* startMonitoring resumes after `await this.updateSystemStats()`
SystemMonitoringStarted ==
    \E r \in {"ok", "throws"} :
        /\ systemMonitor.starting > 0
        /\ systemMonitor' = StartMonitoringResumed(systemMonitor, r)
        /\ lastLog' = (IF r = "ok" THEN Log("monitoringStarted", 0, 0, 0)
                       ELSE LogError("monitoringStartFailed", 0, "Error"))
        /\ Emits(<< >>)
        /\ UNCHANGED <<inUse, statsVars, mainWindow, systemSuspended, devVars, kbdVars>>

\* ipcMain.handle('stop-monitoring')
IpcStopMonitoring ==
    /\ systemMonitor' = StopMonitoring(systemMonitor)
    /\ lastLog' = Log("stopMonitoring", 0, 0, 0)
    /\ Emits(<< >>)
    /\ UNCHANGED <<inUse, statsVars, mainWindow, systemSuspended, devVars, kbdVars>>

\* ipcMain.handle('apply-settings'): the interval part.  The call is made when
\* settings.updateInterval is truthy and the monitor is active; what it throws
\* is caught and logged.
IpcApplySettings ==
    \E ms \in IntervalInputs :
        LET called == ms # 0 /\ systemMonitor.isMonitoring
            result == CallUpdateInterval(systemMonitor, ms)
        IN
        /\ systemMonitor' = (IF called THEN result.monitor ELSE systemMonitor)
        /\ lastLog' = (IF ~called THEN Log("applySettings", ms, 0, 0)
                       ELSE IF result.threw = "none" THEN Log("updateInterval", ms, 0, 0)
                       ELSE LogError("updateIntervalFailed", ms, result.threw))
        /\ Emits(<< >>)
        /\ UNCHANGED <<inUse, statsVars, mainWindow, systemSuspended, devVars, kbdVars>>

\* ------------------------------------------------------------------ window
\* createWindow(), called by app.on('activate') when no window is left
CreateWindow ==
    /\ mainWindow # "open"
    /\ mainWindow' = "open"
    /\ lastLog' = Log("createWindow", 0, 0, 0)
    /\ Emits(<< >>)
    /\ UNCHANGED <<inUse, statsVars, systemMonitor, systemSuspended, devVars, kbdVars>>

\* the window is destroyed; its 'closed' handler has not run yet
WindowDestroyed ==
    /\ mainWindow = "open"
    /\ mainWindow' = "destroyed"
    /\ lastLog' = Log("windowDestroyed", 0, 0, 0)
    /\ Emits(<< >>)
    /\ UNCHANGED <<inUse, statsVars, systemMonitor, systemSuspended, devVars, kbdVars>>

\* mainWindow.on('closed')
WindowClosed ==
    /\ mainWindow = "destroyed"
    /\ mainWindow' = "null"
    /\ lastLog' = Log("windowClosed", 0, 0, 0)
    /\ Emits(<< >>)
    /\ UNCHANGED <<inUse, statsVars, systemMonitor, systemSuspended, devVars, kbdVars>>

\* the serial manager emits serial-data for a line read from the device
SerialDataEvent ==
    \E v \in 0..MaxStatValue :
        /\ isConnected
        /\ lastLog' = Log("serial-data", v, 0, 0)
        /\ Emits(<<Event("serial-data", SerialData(v))>>)
        /\ UNCHANGED <<inUse, statsVars, mainWindow, systemMonitor, systemSuspended,
                       devVars, kbdVars>>

\* ------------------------------------------------------------------- Init
\* The state once the auto-start timeout of setupEventForwarding has run.
\* inUse says which part of the environment is live.  With "keyboard" the
\* auto-start has called keyboardMonitor.startMonitoring(), with any of its
\* outcomes, the user may restart the monitor, and no serial device is ever
\* plugged in unless "device" is there too.  With "device" a serial device
\* exists on the host, and without "keyboard" the user has stopped keyboard
\* monitoring (stop-keyboard-monitoring).  With "serialHangs" the awaited calls
\* of the serial manager do not return, with "keyboardHangs" those of the
\* keyboard monitor do not.
InitIn(use, r) ==
    LET km == IF "keyboard" \in use THEN KmAfterStart(KmState(FALSE, FALSE, FALSE), r)
              ELSE KmState(FALSE, FALSE, FALSE)
        ts == IF "keyboard" \in use /\ EmitsFallback(r)
              THEN OnKeyboardFallback(TimerState(NoTimer, {}), FALSE)
              ELSE TimerState(NoTimer, {})
    IN
    /\ inUse = use
    /\ systemSuspended = FALSE
    /\ pendingResumePort = NoPort
    /\ resumeReconnectTimer = NoTimer
    /\ resumeReconnectAttempts = 0
    /\ keyboardRecoveryTimer = ts.h
    /\ keyboardRecoveryAttempts = 0
    /\ devTimers = {}
    /\ kbdTimers = ts.armed
    /\ devProcs = EmptyBag
    /\ kbdProcs = EmptyBag
    /\ isConnected = FALSE
    /\ connPort = NoPort
    /\ availablePorts \in (IF "device" \in use THEN SUBSET Ports ELSE {{}})
    /\ kmActive = km.active
    /\ kmListener = km.listener
    /\ kmFallback = km.fallback
    /\ kmSession = (IF "keyboard" \in use THEN SessionAfterStart(NoSession, r)
                    ELSE FreshSession)
    /\ lastSystemStats = SystemStats(0)
    /\ lastTypingStats = TypingStats(0)
    /\ statsEvents = << >>
    /\ lastLog = Log("init", 0, 0, 0)
    /\ serialSent = << >>
    /\ mainWindow = "open"
    /\ emitted = << >>
    /\ uiSent = << >>
    /\ systemMonitor = SystemMonitorStarted(NewSystemMonitor, 2000)

Init ==
    \/ InitIn({"device"}, "ok")
    \/ \E r \in StartOutcomes : InitIn({"keyboard"}, r)

\* ------------------------------------------------ keyboard recovery supervisor
\* A stop/start sequence suspended at an await: kind "recovery" is
\* attemptKeyboardRecovery, "restart" is restartKeyboardMonitoring() called by
\* the resume handler, "manual" is restartKeyboardMonitoring({force: true})
\* called by the restart-keyboard-monitoring IPC handler; pc "stop" awaits
\* stopMonitoring(), pc "start" awaits startMonitoring().  `before` is
\* currentSession as it was when the sequence called stopMonitoring();
\* restartKeyboardMonitoring holds a copy of it in previousSession,
\* attemptKeyboardRecovery holds none.
KbdProc(kind, pc, n, before) ==
    [kind |-> kind, pc |-> pc, n |-> n, before |-> before]

\* nextDelay of the catch block of attemptKeyboardRecovery
KeyboardNextDelay(attemptNumber) ==
    MathMin(KEYBOARD_RECOVERY_BASE_DELAY_MS * MathPow2(attemptNumber - 1),
            KEYBOARD_RECOVERY_MAX_DELAY_MS)

\* The catch block that handles a throw of the stop/start sequence p, applied
\* to the timers ts: attemptKeyboardRecovery reschedules with backoff or gives
\* up, the resume handler only logs, the IPC handler schedules a recovery.
KeyboardSequenceFailed(p, ts) ==
    CASE p.kind = "recovery" ->
           IF p.n >= KEYBOARD_RECOVERY_LIMIT
           THEN ClearKeyboardRecoveryTimer(ts)
           ELSE ScheduleKeyboardRecovery(ts, systemSuspended,
                                         KeyboardNextDelay(p.n), p.n)
      [] p.kind = "manual" ->
           ScheduleKeyboardRecovery(ts, systemSuspended,
                                    KEYBOARD_RECOVERY_BASE_DELAY_MS, 0)
      [] OTHER -> ts

FailedLog(p) ==
    CASE p.kind = "recovery" ->
           IF p.n >= KEYBOARD_RECOVERY_LIMIT
           THEN Log("kbdExhausted", p.n, 0, 0)
           ELSE Log("kbdFailed", p.n, 0, 0)
      [] p.kind = "manual" -> Log("manualRestartFailed", 0, 0, 0)
      [] OTHER -> Log("restartFailed", 0, 0, 0)

\* The code after `await keyboardMonitor.startMonitoring()` when it returned,
\* applied to the timers ts with the monitor in state km: the attempt counter
\* is reset and the timer cleared; the IPC handler then schedules a recovery
\* when the monitor is in fallback mode.
KeyboardSequenceDone(p, ts, km) ==
    IF p.kind = "manual" /\ km.fallback
    THEN ScheduleKeyboardRecovery(ClearKeyboardRecoveryTimer(ts), systemSuspended,
                                  KEYBOARD_RECOVERY_BASE_DELAY_MS, 0)
    ELSE ClearKeyboardRecoveryTimer(ts)

DoneLog(p) ==
    CASE p.kind = "recovery" -> Log("kbdRecovered", p.n, 0, 0)
      [] p.kind = "manual" -> Log("manualRestarted", 0, 0, 0)
      [] OTHER -> Log("restarted", 0, 0, 0)

\* the health check that looks at fallbackMode only
ListenerHealthyIgnoresHandle(km) == ~km.fallback

\* attemptKeyboardRecovery: listenerActive && !keyboardMonitor.fallbackMode, with
\* listenerActive = !!(keyboardListener && keyboardListener.kill)
ListenerHealthy(km) == km.listener /\ ~km.fallback

\* attemptKeyboardRecovery() up to its first await, without its
\* systemSuspended check
KeyboardTimerFiresUngated ==
    \E t \in kbdTimers :
        LET ts == Fired(KbdTimerState, t) IN
        /\ IF ListenerHealthy(KmNow)
           THEN /\ SetKbdTimers(ClearKeyboardRecoveryTimer(ts))
                /\ keyboardRecoveryAttempts' = 0
                /\ lastLog' = Log("kbdHealthy", 0, t.delay, t.by)
                /\ UNCHANGED kbdProcs
           ELSE /\ BagCardinality(kbdProcs) < MaxKbdInFlight
                /\ keyboardRecoveryAttempts < MaxKbdAttempts
                /\ keyboardRecoveryAttempts' = keyboardRecoveryAttempts + 1
                /\ kbdProcs' = kbdProcs (+)
                       SetToBag({KbdProc("recovery", "stop", keyboardRecoveryAttempts + 1,
                                         kmSession)})
                /\ SetKbdTimers(ts)
                /\ lastLog' = Log("kbdStart", keyboardRecoveryAttempts + 1, t.delay, t.by)
        /\ Emits(<< >>)
        /\ UNCHANGED <<inUse, statsVars, mainWindow, systemMonitor, systemSuspended, devVars, kmActive, kmListener,
                       kmFallback, kmSession>>

\* The recovery timer fires: attemptKeyboardRecovery() up to its first await.
KeyboardTimerFires ==
    \E t \in kbdTimers :
        LET ts == Fired(KbdTimerState, t) IN
        /\ IF systemSuspended
           THEN /\ SetKbdTimers(ts)
                /\ lastLog' = Log("kbdSkipped", 0, t.delay, t.by)
                /\ UNCHANGED <<keyboardRecoveryAttempts, kbdProcs>>
           ELSE IF ListenerHealthy(KmNow)
           THEN /\ SetKbdTimers(ClearKeyboardRecoveryTimer(ts))
                /\ keyboardRecoveryAttempts' = 0
                /\ lastLog' = Log("kbdHealthy", 0, t.delay, t.by)
                /\ UNCHANGED kbdProcs
           ELSE /\ BagCardinality(kbdProcs) < MaxKbdInFlight
                /\ keyboardRecoveryAttempts < MaxKbdAttempts
                /\ keyboardRecoveryAttempts' = keyboardRecoveryAttempts + 1
                /\ kbdProcs' = kbdProcs (+)
                       SetToBag({KbdProc("recovery", "stop", keyboardRecoveryAttempts + 1,
                                         kmSession)})
                /\ SetKbdTimers(ts)
                /\ lastLog' = Log("kbdStart", keyboardRecoveryAttempts + 1, t.delay, t.by)
        /\ Emits(<< >>)
        /\ UNCHANGED <<inUse, statsVars, mainWindow, systemMonitor, systemSuspended, devVars, kmActive, kmListener,
                       kmFallback, kmSession>>

\* stopMonitoring() completes for a sequence: the sequence calls
\* startMonitoring(), or its catch block runs.
KeyboardStopped ==
    \E p \in BagToSet(kbdProcs) : \E r \in StopOutcomes :
        /\ "keyboardHangs" \notin inUse
        /\ p.pc = "stop"
        /\ SetKm(KmAfterStop(KmNow, r))
        /\ IF r = "ok"
           THEN /\ kbdProcs' = (kbdProcs (-) SetToBag({p})) (+)
                       SetToBag({KbdProc(p.kind, "start", p.n, p.before)})
                /\ lastLog' = Log("kbdStopped", p.n, 0, 0)
                /\ UNCHANGED <<keyboardRecoveryTimer, kbdTimers>>
           ELSE /\ kbdProcs' = kbdProcs (-) SetToBag({p})
                /\ SetKbdTimers(KeyboardSequenceFailed(p, KbdTimerState))
                /\ lastLog' = FailedLog(p)
        /\ Emits(<< >>)
        /\ UNCHANGED <<inUse, statsVars, mainWindow, systemMonitor, systemSuspended, devVars, keyboardRecoveryAttempts,
                       kmSession>>

\* a keyboard sequence whose end also resets resumeReconnectAttempts
KeyboardSequenceResetsDevice ==
    /\ resumeReconnectAttempts' = 0
    /\ UNCHANGED <<pendingResumePort, resumeReconnectTimer, devTimers, devProcs,
                   isConnected, connPort, availablePorts>>

\* restartKeyboardMonitoring and attemptKeyboardRecovery after their awaits
\* assign nothing of the device supervisor
KeyboardSequenceLeavesDevice == UNCHANGED devVars

\* startMonitoring() completes for a sequence, and the sequence runs to its end.
KeyboardStarted ==
    \E p \in BagToSet(kbdProcs) : \E r \in StartOutcomes :
        LET km == KmAfterStart(KmNow, r)
            ts == IF EmitsFallback(r)
                  THEN OnKeyboardFallback(KbdTimerState, systemSuspended)
                  ELSE KbdTimerState
        IN
        /\ "keyboardHangs" \notin inUse
        /\ p.pc = "start"
        /\ SetKm(km)
        /\ kbdProcs' = kbdProcs (-) SetToBag({p})
        /\ IF r = "throws"
           THEN /\ SetKbdTimers(KeyboardSequenceFailed(p, ts))
                /\ kmSession' = SessionAfterStart(kmSession, r)
                /\ lastLog' = FailedLog(p)
                /\ UNCHANGED keyboardRecoveryAttempts
           ELSE /\ keyboardRecoveryAttempts' = 0
                /\ SetKbdTimers(KeyboardSequenceDone(p, ts, km))
                /\ kmSession' = (IF p.kind = "recovery"
                                 THEN SessionAfterStart(kmSession, r)
                                 ELSE SpliceSession(SessionAfterStart(kmSession, r),
                                                    p.before))
                /\ lastLog' = DoneLog(p)
        /\ Emits(IF EmitsFallback(r)
                 THEN <<Event("keyboard-fallback", KeyboardFallbackData)>> ELSE << >>)
        /\ KeyboardSequenceLeavesDevice
        /\ UNCHANGED <<inUse, statsVars, mainWindow, systemMonitor, systemSuspended>>

\* The keyboard monitor loses its native listener while monitoring and emits
\* keyboard-fallback.
KeyboardFallback ==
    /\ kmActive /\ kmListener
    /\ SetKm(KmState(TRUE, FALSE, TRUE))
    /\ SetKbdTimers(OnKeyboardFallback(KbdTimerState, systemSuspended))
    /\ lastLog' = Log("fallback", 0, 0, 0)
    /\ Emits(<<Event("keyboard-fallback", KeyboardFallbackData)>>)
    /\ UNCHANGED <<inUse, statsVars, mainWindow, systemMonitor, systemSuspended, devVars, keyboardRecoveryAttempts, kbdProcs,
                   kmSession>>

\* The keyboard monitor counts a keystroke in its current session.
KeystrokeCounted ==
    /\ kmActive
    /\ kmSession.exists
    /\ kmSession.totalKeystrokes < MaxKeystrokes
    /\ kmSession' = SessionAfterKeystroke(kmSession)
    /\ lastLog' = Log("keystroke", 0, 0, 0)
    /\ Emits(<< >>)
    /\ UNCHANGED <<inUse, statsVars, mainWindow, systemMonitor, systemSuspended, devVars, keyboardRecoveryTimer,
                   keyboardRecoveryAttempts, kbdTimers, kbdProcs, kmActive,
                   kmListener, kmFallback>>

\* ipcMain.handle('restart-keyboard-monitoring') up to its first await
IpcRestartKeyboardMonitoring ==
    /\ "keyboard" \in inUse
    /\ BagCardinality(kbdProcs) < MaxKbdInFlight
    /\ keyboardRecoveryAttempts' = 0
    /\ SetKbdTimers(ClearKeyboardRecoveryTimer(KbdTimerState))
    /\ kbdProcs' = kbdProcs (+) SetToBag({KbdProc("manual", "stop", 0, kmSession)})
    /\ lastLog' = Log("manualRestart", 0, 0, 0)
    /\ Emits(<< >>)
    /\ UNCHANGED <<inUse, statsVars, mainWindow, systemMonitor, systemSuspended, devVars, kmActive, kmListener,
                   kmFallback, kmSession>>

\* ------------------------------------------------------------ power handlers
\* disconnect() of the serial manager
SerialDisconnect ==
    /\ isConnected' = FALSE
    /\ connPort' = NoPort

\* the suspend and resume handlers leaving resumeReconnectAttempts as it is
ResumeAttemptsAfterPowerEventKept(attempts) == attempts

\* the suspend and the resume handler: resumeReconnectAttempts = 0
ResumeAttemptsAfterPowerEvent(attempts) == 0

\* the suspend handler that forgets the pending port of a disconnected device
SuspendPendingPortForgets(connected, port, pending) ==
    IF port # NoPort THEN port ELSE NoPort

\* the suspend handler: pendingResumePort after it read the connection status
\* {isConnected: connected, port: port}
SuspendPendingPort(connected, port, pending) ==
    IF connected /\ port # NoPort THEN port
    ELSE IF port # NoPort THEN port
    ELSE pending

\* powerMonitor.on('suspend')
Suspend ==
    /\ ~systemSuspended
    /\ systemSuspended' = TRUE
    /\ SetDevTimers(ClearResumeReconnectTimer(DevTimerState))
    /\ resumeReconnectAttempts' = ResumeAttemptsAfterPowerEvent(resumeReconnectAttempts)
    /\ pendingResumePort' = SuspendPendingPort(isConnected, connPort, pendingResumePort)
    /\ IF isConnected /\ connPort # NoPort
       THEN SerialDisconnect
       ELSE UNCHANGED <<isConnected, connPort>>
    /\ lastLog' = Log("suspend", 0, IF resumeReconnectTimer \in devTimers
                                     THEN resumeReconnectTimer.delay ELSE 0, 0)
    /\ Emits(IF isConnected /\ connPort # NoPort
             THEN <<ConnectionChange(FALSE, NoPort)>> ELSE << >>)
    /\ UNCHANGED <<inUse, statsVars, mainWindow, systemMonitor, devProcs, availablePorts, kbdVars>>

\* restartKeyboardMonitoring() that returns early when the listener is healthy
RestartProceedsUnlessHealthy(force) == force \/ (kmActive /\ ~(kmListener /\ ~kmFallback))

\* restartKeyboardMonitoring() without force, up to its first await: TRUE when
\* it goes on to call stopMonitoring()
RestartProceeds(force) == force \/ kmActive

\* the resume handler scheduling whether or not a port is pending
ResumeReconnectTimersAlways(ts, pending) ==
    ScheduleResumeReconnect(ts, FALSE, RESUME_RETRY_BASE_DELAY_MS, 0)

\* the resume handler, after it set systemSuspended = false: the reconnect is
\* scheduled if a port is pending
ResumeReconnectTimers(ts, pending) ==
    IF pending # NoPort
    THEN ScheduleResumeReconnect(ts, FALSE, RESUME_RETRY_BASE_DELAY_MS, 0)
    ELSE ts

\* powerMonitor.on('resume')
Resume ==
    /\ systemSuspended
    /\ systemSuspended' = FALSE
    /\ resumeReconnectAttempts' = ResumeAttemptsAfterPowerEvent(resumeReconnectAttempts)
    /\ SetDevTimers(ResumeReconnectTimers(DevTimerState, pendingResumePort))
    /\ IF RestartProceeds(FALSE)
       THEN /\ BagCardinality(kbdProcs) < MaxKbdInFlight
            /\ kbdProcs' = kbdProcs (+) SetToBag({KbdProc("restart", "stop", 0, kmSession)})
       ELSE UNCHANGED kbdProcs
    /\ lastLog' = Log("resume", 0, 0, 0)
    /\ Emits(<< >>)
    /\ UNCHANGED <<inUse, statsVars, mainWindow, systemMonitor, pendingResumePort, devProcs, isConnected, connPort,
                   availablePorts, keyboardRecoveryTimer, keyboardRecoveryAttempts, kbdTimers,
                   kmActive, kmListener, kmFallback, kmSession>>

\* ------------------------------------------------------------ specification
Next ==
    \/ Suspend
    \/ Resume
    \/ ResumeTimerFires
    \/ PortsEnumerated
    \/ ConnectCompleted
    \/ PortAppears
    \/ PortDisappears
    \/ IpcConnectToDevice
    \/ IpcDisconnectDevice
    \/ KeyboardTimerFires
    \/ KeyboardStopped
    \/ KeyboardStarted
    \/ KeyboardFallback
    \/ KeystrokeCounted
    \/ IpcRestartKeyboardMonitoring

Spec == Init /\ [][Next]_vars

\* The keyboard supervisor under the fairness of the event loop and of the
\* host: an armed timer fires, an awaited collaborator call returns or throws,
\* and a suspended system resumes.
NextKeyboard ==
    \/ Suspend
    \/ Resume
    \/ KeyboardTimerFires
    \/ KeyboardStopped
    \/ KeyboardStarted
    \/ KeyboardFallback
    \/ IpcRestartKeyboardMonitoring

SpecKeyboardFair ==
    /\ \E r \in StartOutcomes : InitIn({"keyboard"}, r)
    /\ [][NextKeyboard]_vars
    /\ WF_vars(Resume)
    /\ WF_vars(KeyboardTimerFires)
    /\ WF_vars(KeyboardStopped)
    /\ WF_vars(KeyboardStarted)

\* Both supervisors on a host with a serial device and a keyboard monitor that
\* the auto-start has started: the power events, the two retry loops and what
\* sets them going.  One of the two collaborators hangs: its awaited calls do
\* not return, so the attempts of its supervisor stay in flight while the
\* other supervisor runs its whole loop.
NextBoth ==
    \/ Suspend
    \/ Resume
    \/ IpcConnectToDevice
    \/ ResumeTimerFires
    \/ PortsEnumerated
    \/ ConnectCompleted
    \/ KeyboardFallback
    \/ KeyboardTimerFires
    \/ KeyboardStopped
    \/ KeyboardStarted

SpecBoth ==
    /\ \E r \in StartOutcomes : \E hangs \in {"serialHangs", "keyboardHangs"} :
           InitIn({"device", "keyboard", hangs}, r)
    /\ [][NextBoth]_vars

\* The system monitor and the IPC handlers that drive it
NextInterval ==
    \/ IpcStartMonitoring
    \/ SystemMonitoringStarted
    \/ IpcStopMonitoring
    \/ IpcApplySettings

SpecInterval == InitIn({"device"}, "ok") /\ [][NextInterval]_vars

\* The forwarding of events to the window, with the window coming and going
\* and the system suspending and resuming
NextUi ==
    \/ CreateWindow
    \/ WindowDestroyed
    \/ WindowClosed
    \/ Suspend
    \/ Resume
    \/ SerialDataEvent
    \/ SystemStatsEvent
    \/ TypingStatsEvent
    \/ KeyboardFallback
    \/ PortAppears
    \/ PortDisappears
    \/ IpcConnectToDevice
    \/ IpcDisconnectDevice

SpecUi == Init /\ [][NextUi]_vars

\* The device supervisor with a serial device on the host, under the fairness of
\* the event loop: an armed timer fires, and a collaborator call that is
\* awaited returns or throws.
NextDevice ==
    \/ Suspend
    \/ Resume
    \/ ResumeTimerFires
    \/ PortsEnumerated
    \/ ConnectCompleted
    \/ PortAppears
    \/ PortDisappears
    \/ IpcConnectToDevice
    \/ IpcDisconnectDevice

SpecDeviceFair ==
    /\ InitIn({"device"}, "ok")
    /\ [][NextDevice]_vars
    /\ WF_vars(ResumeTimerFires)
    /\ WF_vars(PortsEnumerated)
    /\ WF_vars(ConnectCompleted)

\* ===================================================================== claims
\* C1: when the attempt numbered k fails with k below the limit and the system
\* not suspended, the timer of the next attempt is armed with delay
\* min(base * 2^(k-1), max): base 1000, max 30000, limit 10 for the device
\* reconnect, base 2000, max 60000, limit 5 for the keyboard recovery.
C1_BackoffDelay ==
    /\ (lastLog.ev = "devFailed" /\ lastLog.n < 10 /\ ~systemSuspended) =>
          /\ resumeReconnectTimer \in devTimers
          /\ resumeReconnectTimer.delay =
                 (IF 1000 * 2^(lastLog.n - 1) < 30000
                  THEN 1000 * 2^(lastLog.n - 1) ELSE 30000)
    /\ (lastLog.ev = "kbdFailed" /\ lastLog.n < 5 /\ ~systemSuspended) =>
          /\ keyboardRecoveryTimer \in kbdTimers
          /\ keyboardRecoveryTimer.delay =
                 (IF 2000 * 2^(lastLog.n - 1) < 60000
                  THEN 2000 * 2^(lastLog.n - 1) ELSE 60000)

\* C1 witness: the 6th device attempt has failed and the capped delay is armed
C1_Witness ==
    /\ lastLog.ev = "devFailed"
    /\ lastLog.n = 6
    /\ ~systemSuspended
    /\ resumeReconnectTimer = Timer(30000, 6)
    /\ resumeReconnectTimer \in devTimers

\* C2 as claimed: in a run of failing attempts started by a resume (attempt 1
\* started by the timer of the resume handler, attempt k+1 by the timer that the
\* failure of attempt k armed) the delay that precedes attempt k is
\* min(1000 * 2^(k-1), 30000): 1000, 2000, 4000, ...
C2_ClaimedDelays ==
    (lastLog.ev = "devStart" /\ lastLog.by = lastLog.n - 1) =>
        lastLog.d = (IF 1000 * 2^(lastLog.n - 1) < 30000
                     THEN 1000 * 2^(lastLog.n - 1) ELSE 30000)

\* C2 amended: the counter is incremented when an attempt starts, and in such a
\* run the delay that precedes attempt 1 is 1000 and the delay that precedes
\* attempt k >= 2 is min(1000 * 2^(k-2), 30000): 1000, 1000, 2000, 4000, 8000,
\* 16000, 30000, 30000, ...
C2_DelaysOfARun ==
    lastLog.ev = "devStart" =>
        /\ lastLog.n >= 1
        /\ resumeReconnectAttempts = lastLog.n
        /\ lastLog.by = 0 => lastLog.n = 1
        /\ lastLog.by = lastLog.n - 1 =>
              lastLog.d = (IF lastLog.n = 1 THEN 1000
                           ELSE IF 1000 * 2^(lastLog.n - 2) < 30000
                           THEN 1000 * 2^(lastLog.n - 2) ELSE 30000)

\* C2 witness: the 2nd attempt of a run starts from the timer that the failure
\* of the 1st armed, after a delay of 1000
C2_Witness ==
    /\ lastLog.ev = "devStart"
    /\ lastLog.n = 2
    /\ lastLog.by = 1
    /\ lastLog.d = 1000

\* A recovery attempt of the keyboard supervisor is awaiting the monitor
RecoveryInFlight == \E p \in BagToSet(kbdProcs) : p.kind = "recovery"

\* C3 as claimed: once 10 device reconnect attempts (5 keyboard recovery
\* attempts) have failed and the counter has not been reset, no timer of that
\* subsystem is armed and no further attempt of it starts.
C3_NoTimerOnceExhausted ==
    /\ (resumeReconnectAttempts >= 10 /\ devProcs = EmptyBag) => devTimers = {}
    /\ (keyboardRecoveryAttempts >= 5 /\ ~RecoveryInFlight) => kbdTimers = {}
    /\ lastLog.ev = "devStart" => lastLog.n <= 10
    /\ lastLog.ev = "kbdStart" => lastLog.n <= 5

\* C4 as claimed: resumeReconnectAttempts <= 10 and keyboardRecoveryAttempts <= 5
\* in every reachable state.
C4_AttemptsWithinLimit ==
    /\ resumeReconnectAttempts <= 10
    /\ keyboardRecoveryAttempts <= 5

\* C5 as claimed: while the attempt counter of a subsystem is at or above its
\* limit and is not reset, no step arms a timer of that subsystem.
C5_ScheduleIsNoOpAtLimit ==
    [][/\ (resumeReconnectAttempts >= 10 /\ resumeReconnectAttempts' >= 10) =>
              devTimers' \subseteq devTimers
       /\ (keyboardRecoveryAttempts >= 5 /\ keyboardRecoveryAttempts' >= 5) =>
              kbdTimers' \subseteq kbdTimers]_vars

\* C6 as claimed: at most one attemptResumeReconnect is awaiting the serial
\* manager, and at most one keyboard stop/start sequence is awaiting the
\* keyboard monitor.
C6_OneAttemptInFlight ==
    /\ BagCardinality(devProcs) <= 1
    /\ BagCardinality(kbdProcs) <= 1

\* C7: a suspend cancels the pending device reconnect timer, none is armed while
\* the system is suspended, and no device reconnect attempt starts while it is
\* suspended.
C7_SuspendCancelsReconnect ==
    /\ systemSuspended => (devTimers = {} /\ resumeReconnectTimer = NoTimer)
    /\ lastLog.ev \in {"devStart", "devAlreadyConnected"} => ~systemSuspended

\* C7 witness: the suspend arrived while the 4000 ms timer was pending
C7_Witness ==
    /\ lastLog.ev = "suspend"
    /\ lastLog.d = 4000
    /\ systemSuspended
    /\ devTimers = {}

\* C8 as claimed: the suspend handler leaves neither a device reconnect timer nor
\* a keyboard recovery timer armed.
C8_SuspendCancelsBothTimers ==
    lastLog.ev = "suspend" => (devTimers = {} /\ kbdTimers = {})

\* C9: when connectToDevice succeeds for an attempt, the device is connected,
\* pendingResumePort is null, resumeReconnectAttempts is 0 and no reconnect timer
\* is armed.
C9_ReconnectClearsPending ==
    lastLog.ev = "devReconnected" =>
        /\ isConnected
        /\ connPort \in Ports
        /\ pendingResumePort = NoPort
        /\ resumeReconnectAttempts = 0
        /\ resumeReconnectTimer = NoTimer
        /\ devTimers = {}

\* C9 witness: the first attempt after a resume has connected the device
C9_Witness ==
    /\ lastLog.ev = "devReconnected"
    /\ lastLog.n = 1
    /\ isConnected
    /\ devProcs = EmptyBag

\* The stats multiplexer with the device being connected and disconnected.
NextStats ==
    \/ SystemStatsEvent
    \/ TypingStatsEvent
    \/ StatsTick
    \/ PortAppears
    \/ PortDisappears
    \/ IpcConnectToDevice
    \/ IpcDisconnectDevice

SpecStats == InitIn({"device"}, "ok") /\ [][NextStats]_vars

\* A reconnect run is under way: the system is awake, a port is pending, and a
\* reconnect timer is armed or an attempt is awaiting the serial manager.
ReconnectRunActive ==
    /\ ~systemSuspended
    /\ pendingResumePort # NoPort
    /\ (devTimers # {} \/ devProcs # EmptyBag)

\* What ends a reconnect run other than the connection: a suspend, the 10th
\* failure, a collaborator call that throws or reports no success, the port
\* going away again, or the user connecting or disconnecting by hand.
ReconnectRunCutShort ==
    \/ systemSuspended
    \/ lastLog.ev \in {"devExhausted", "devNoSuccess", "portDisappears",
                       "ipcConnect", "ipcDisconnect"}
    \/ lastLog.why \in {PortsThrew, ConnectThrew}

\* C10: a reconnect run keeps being rescheduled until the device is connected
\* and pendingResumePort cleared, unless it is cut short; and an attempt fails
\* for "port not yet available", the only failure that exhausts an undisturbed
\* run, only while the pending port is not enumerated.
C10_RetriesUntilPortAppears ==
    /\ [](ReconnectRunActive =>
            <>((isConnected /\ pendingResumePort = NoPort) \/ ReconnectRunCutShort))
    /\ []((lastLog.ev \in {"devFailed", "devExhausted"}
             /\ lastLog.why = NotYetAvailable) =>
            pendingResumePort \notin availablePorts)

\* C10 witness: the port appeared during the run and the 3rd attempt connected
C10_Witness ==
    /\ lastLog.ev = "devReconnected"
    /\ lastLog.n = 3
    /\ isConnected
    /\ pendingResumePort = NoPort

\* C11 as claimed: an attempt whose connectToDevice returned a non-success
\* result is a failed attempt: pendingResumePort stays set, the counter is not
\* reset, and below the limit, with the system awake, a retry timer is armed;
\* the same retry timer is armed after a connectToDevice that threw.
C11_ConnectFailureIsAFailedAttempt ==
    /\ lastLog.ev = "devNoSuccess" =>
          /\ pendingResumePort # NoPort
          /\ resumeReconnectAttempts >= 1
          /\ (lastLog.n < 10 /\ ~systemSuspended) => resumeReconnectTimer \in devTimers
    /\ (lastLog.ev = "devFailed" /\ lastLog.why = ConnectThrew /\ ~systemSuspended) =>
          resumeReconnectTimer \in devTimers

\* C12 as claimed: once the 10th attempt has failed pendingResumePort is none.
C12_ExhaustionClearsPending ==
    lastLog.ev = "devExhausted" => pendingResumePort = NoPort

\* The counters of session a equal those of session b
SameCounters(a, b) ==
    /\ a.totalKeystrokes = b.totalKeystrokes
    /\ a.startTime = b.startTime
    /\ a.lastKeystrokeTime = b.lastKeystrokeTime

\* The step completes the stop/start sequence p, printing ev
SequenceCompletes(p, ev) ==
    /\ p.pc = "start"
    /\ kbdProcs' = kbdProcs (-) SetToBag({p})
    /\ lastLog'.ev = ev

\* C13: when a manual forced restart completes, totalKeystrokes, startTime and
\* lastKeystrokeTime of the current session equal their values when the
\* restart called stopMonitoring().
C13_ForcedRestartKeepsSession ==
    [][\A p \in BagToSet(kbdProcs) :
          (p.kind = "manual" /\ p.before.exists /\ SequenceCompletes(p, "manualRestarted"))
              => (kmSession'.exists /\ SameCounters(kmSession', p.before))]_vars

\* C13 witness: a manual restart has completed and the session that
\* startMonitoring() created anew holds the 2 keystrokes counted before it
C13_Witness ==
    /\ lastLog.ev = "manualRestarted"
    /\ kmSession = Session(2, 1, 2)

\* C14 as claimed: when a recovery attempt completes successfully,
\* totalKeystrokes, startTime and lastKeystrokeTime of the current session
\* equal their values when the attempt called stopMonitoring().
C14_RecoveryKeepsSession ==
    [][\A p \in BagToSet(kbdProcs) :
          (p.kind = "recovery" /\ p.before.exists /\ SequenceCompletes(p, "kbdRecovered"))
              => (kmSession'.exists /\ SameCounters(kmSession', p.before))]_vars

\* C15 as claimed: every resume notification starts a keyboard restart (a
\* stopMonitoring() call followed by startMonitoring()), whatever the state of
\* the monitor.
C15_ResumeAlwaysRestartsKeyboard ==
    lastLog.ev = "resume" =>
        \E p \in BagToSet(kbdProcs) : p.kind = "restart" /\ p.pc = "stop"

\* The stats of the most recent event of the given name, or the initial value
\* of the cache when no such event was emitted
RECURSIVE LatestStats(_, _, _)
LatestStats(events, name, initial) ==
    IF events = << >> THEN initial
    ELSE IF events[Len(events)].name = name THEN events[Len(events)].stats
    ELSE LatestStats(SubSeq(events, 1, Len(events) - 1), name, initial)

\* C16: a stats tick at which the device is not connected calls
\* sendCombinedStats not at all, and no tick calls it more than once, so nothing
\* of a skipped tick is sent later.
C16_NothingSentWhileDisconnected ==
    lastLog.ev = "statsTick" =>
        /\ ~isConnected => serialSent = << >>
        /\ Len(serialSent) <= 1

\* C16 witness: a tick while disconnected, after three stats events were
\* received, sends nothing
C16_Witness ==
    /\ lastLog.ev = "statsTick"
    /\ ~isConnected
    /\ Len(statsEvents) = 3
    /\ lastSystemStats = SystemStats(1)
    /\ serialSent = << >>

\* C17: a stats tick at which the device is connected calls sendCombinedStats
\* exactly once, with the stats of the most recent system-stats event and of the
\* most recent typing-stats event.
C17_TickSendsLatestPair ==
    (lastLog.ev = "statsTick" /\ isConnected) =>
        serialSent = <<[sys |-> LatestStats(statsEvents, "system-stats", SystemStats(0)),
                        typing |-> LatestStats(statsEvents, "typing-stats", TypingStats(0))]>>

\* C17 witness: a tick while connected, after system-stats 0, typing-stats 1 and
\* system-stats 1 in this order, sends the pair (1, 1)
C17_Witness ==
    /\ lastLog.ev = "statsTick"
    /\ isConnected
    /\ statsEvents = <<StatsEvent("system-stats", SystemStats(0)),
                       StatsEvent("typing-stats", TypingStats(1)),
                       StatsEvent("system-stats", SystemStats(1))>>
    /\ serialSent = <<[sys |-> SystemStats(1), typing |-> TypingStats(1)]>>

\* C18 as claimed: clearing when no timer is armed leaves the timer handle as
\* it is.
C18_ClearLeavesHandle ==
    /\ resumeReconnectTimer \notin devTimers =>
          ClearResumeReconnectTimer(DevTimerState) = DevTimerState
    /\ keyboardRecoveryTimer \notin kbdTimers =>
          ClearKeyboardRecoveryTimer(KbdTimerState) = KbdTimerState

\* C18: clearing when no timer is armed arms and cancels nothing and leaves the
\* handle null; clearing twice in a row gives the same as clearing once.
C18_ClearIsIdempotent ==
    /\ resumeReconnectTimer \notin devTimers =>
          /\ ClearResumeReconnectTimer(DevTimerState).armed = devTimers
          /\ ClearResumeReconnectTimer(DevTimerState).h = NoTimer
    /\ keyboardRecoveryTimer \notin kbdTimers =>
          /\ ClearKeyboardRecoveryTimer(KbdTimerState).armed = kbdTimers
          /\ ClearKeyboardRecoveryTimer(KbdTimerState).h = NoTimer
    /\ ClearResumeReconnectTimer(ClearResumeReconnectTimer(DevTimerState)) =
          ClearResumeReconnectTimer(DevTimerState)
    /\ ClearKeyboardRecoveryTimer(ClearKeyboardRecoveryTimer(KbdTimerState)) =
          ClearKeyboardRecoveryTimer(KbdTimerState)

\* C18 witness: the timer armed by the resume handler has fired and started
\* attempt 1, so no timer is armed while the handle still refers to the fired
\* one; clearing now resets the handle to null
C18_Witness ==
    /\ lastLog.ev = "devStart"
    /\ resumeReconnectTimer = Timer(1000, 0)
    /\ devTimers = {}
    /\ ClearResumeReconnectTimer(DevTimerState) = TimerState(NoTimer, {})

\* C19: at most one timer of each subsystem is armed, and it is the one the
\* handle variable refers to.
C19_OneTimerPerSubsystem ==
    /\ Cardinality(devTimers) <= 1
    /\ Cardinality(kbdTimers) <= 1
    /\ devTimers \subseteq {resumeReconnectTimer}
    /\ kbdTimers \subseteq {keyboardRecoveryTimer}

\* C19 witness: attempt 1 was in flight during a suspend and a resume, and failed
\* while the timer armed by the resume was pending; its retry timer replaced it
C19_Witness ==
    /\ lastLog.ev = "devFailed"
    /\ lastLog.n = 1
    /\ resumeReconnectAttempts = 0
    /\ devProcs = EmptyBag
    /\ devTimers = {Timer(1000, 1)}

\* The step is the callback of a retry timer
TimerCallbackRuns ==
    lastLog'.ev \in {"devSkipped", "devAlreadyConnected", "devStart",
                     "kbdSkipped", "kbdHealthy", "kbdStart"}

\* C20: a retry timer callback that runs while systemSuspended is true starts
\* no attempt (no collaborator call), changes no attempt counter, arms no timer
\* and leaves pendingResumePort unchanged.
C20_NoWorkWhileSuspended ==
    [][(systemSuspended /\ TimerCallbackRuns) =>
          /\ UNCHANGED <<devProcs, kbdProcs, resumeReconnectAttempts,
                         keyboardRecoveryAttempts, pendingResumePort>>
          /\ devTimers' \subseteq devTimers
          /\ kbdTimers' \subseteq kbdTimers]_vars

\* C20 witness: the keyboard recovery timer, armed with 2000 ms before the
\* suspend, has fired while the system is suspended
C20_Witness ==
    /\ lastLog.ev = "kbdSkipped"
    /\ lastLog.d = 2000
    /\ systemSuspended
    /\ kbdTimers = {}

\* C21: a suspend while the device is connected on port p disconnects it and
\* sets pendingResumePort to p; a resume clears systemSuspended, keeps
\* pendingResumePort, and arms the reconnect timer with 1000 ms if
\* pendingResumePort is set and arms no timer if it is not.
C21_SuspendRecordsResumeSchedules ==
    [][/\ (~systemSuspended /\ systemSuspended' /\ isConnected /\ connPort # NoPort) =>
              (pendingResumePort' = connPort /\ ~isConnected')
       /\ (systemSuspended /\ ~systemSuspended') =>
              /\ pendingResumePort' = pendingResumePort
              /\ pendingResumePort # NoPort =>
                    (resumeReconnectTimer' = Timer(1000, 0) /\ devTimers' = {Timer(1000, 0)})
              /\ pendingResumePort = NoPort =>
                    (resumeReconnectTimer' = NoTimer /\ devTimers' = {})]_vars

\* C21 witness: the device was connected on port 1, the system suspended and
\* resumed, and the 1000 ms reconnect timer is armed for port 1
C21_Witness ==
    /\ lastLog.ev = "resume"
    /\ ~systemSuspended
    /\ ~isConnected
    /\ pendingResumePort = 1
    /\ devTimers = {Timer(1000, 0)}
    /\ resumeReconnectAttempts = 0

\* C22 as claimed: a forced restart leaves keyboardRecoveryAttempts = 0 and no
\* recovery timer armed when its stop/start begins, and a recovery attempt that
\* was in flight when the forced restart was issued and ends right after it
\* arms no timer and does not change the attempt counter.
C22_ForcedRestartOverridesRecovery ==
    [][lastLog.ev = "manualRestart" =>
          /\ keyboardRecoveryAttempts = 0 /\ kbdTimers = {}
          /\ lastLog'.ev \in {"kbdFailed", "kbdExhausted", "kbdRecovered"} =>
                /\ kbdTimers' = {}
                /\ keyboardRecoveryAttempts' = keyboardRecoveryAttempts]_vars

\* C24: a call systemMonitor.updateInterval(ms) raises an error and leaves the
\* interval unchanged exactly when ms is below 100 or above 10000; for every
\* other ms it raises nothing and the interval of the monitor becomes ms, the
\* sampling loop being restarted when monitoring is active
C24_UpdateIntervalFailsOnlyOutOfRange ==
    [][lastLog'.ev \in {"updateInterval", "updateIntervalFailed"} =>
          IF lastLog'.n < 100 \/ lastLog'.n > 10000
          THEN /\ lastLog'.why # ""
               /\ systemMonitor' = systemMonitor
          ELSE /\ lastLog'.why = ""
               /\ systemMonitor'.updateInterval = lastLog'.n
               /\ systemMonitor.isMonitoring =>
                     (systemMonitor'.starting > 0
                      /\ systemMonitor'.monitoringInterval = Null)]_vars

\* C23: the events emitted in a step are sent to the window unmodified and
\* exactly once when mainWindow is set and not destroyed, and nothing is sent
\* when it is null or destroyed; a step that attaches a window sends it
\* nothing, and what it receives later is only what is emitted later
C23_EventsForwardedOnceOrDropped ==
    [][/\ mainWindow = "open" => uiSent' = emitted'
       /\ mainWindow # "open" => uiSent' = << >>
       /\ mainWindow' # mainWindow => (emitted' = << >> /\ uiSent' = << >>)]_vars

\* a connection-change is emitted while the destroyed window awaits its
\* 'closed' handler: nothing is sent, and the handler has recorded the port
C23_Witness ==
    /\ mainWindow = "destroyed"
    /\ emitted = <<ConnectionChange(TRUE, 1)>>
    /\ uiSent = << >>
    /\ pendingResumePort = 1

\* C25: when stopMonitoring or startMonitoring throws in a recovery attempt,
\* in the restart made by the resume handler or in a manual forced restart,
\* the error is caught and, unless the attempts are exhausted or the system is
\* suspended, a keyboard recovery timer is armed
C25_RestartErrorsBecomeSchedules ==
    [][(lastLog'.ev \in {"kbdFailed", "manualRestartFailed", "restartFailed"}
        /\ ~systemSuspended) =>
          (keyboardRecoveryTimer' # NoTimer /\ kbdTimers' = {keyboardRecoveryTimer'})]_vars

\* C26 as stated: the restartKeyboardMonitoring() call of the resume handler
\* calls no stopMonitoring when the monitor is active and the listener healthy,
\* and the forced call of the IPC handler always calls it
C26_NonForcedSkipsHealthy ==
    [][/\ (lastLog'.ev = "resume" /\ kmActive /\ kmListener /\ ~kmFallback) =>
              kbdProcs' = kbdProcs
       /\ lastLog'.ev = "manualRestart" =>
              kbdProcs' = kbdProcs (+) SetToBag({KbdProc("manual", "stop", 0, kmSession)})]_vars

\* C26: the restartKeyboardMonitoring() call of the resume handler returns
\* without calling stopMonitoring exactly when the monitor is not active, and
\* calls it when the monitor is active, healthy or not; the forced call of the
\* IPC handler always calls it
C26_NonForcedSkipsInactive ==
    [][/\ lastLog'.ev = "resume" =>
              kbdProcs' = (IF kmActive
                           THEN kbdProcs (+) SetToBag({KbdProc("restart", "stop", 0, kmSession)})
                           ELSE kbdProcs)
       /\ lastLog'.ev = "manualRestart" =>
              kbdProcs' = kbdProcs (+) SetToBag({KbdProc("manual", "stop", 0, kmSession)})]_vars

\* the resume handler has called stopMonitoring() on a healthy active listener
C26_Witness ==
    /\ lastLog.ev = "resume"
    /\ kmActive /\ kmListener /\ ~kmFallback
    /\ kbdProcs = SetToBag({KbdProc("restart", "stop", 0, kmSession)})

\* C27: a keyboard recovery attempt (the timer callback, system not
\* suspended) that finds the listener handle present and fallbackMode false
\* sets keyboardRecoveryAttempts to 0, clears the recovery timer and calls
\* neither stopMonitoring nor startMonitoring; one that finds otherwise calls
\* stopMonitoring, and startMonitoring is called only by a sequence whose
\* stopMonitoring has returned
C27_HealthyAttemptOnlyResets ==
    [][/\ (lastLog'.ev \in {"kbdSkipped", "kbdHealthy", "kbdStart"} /\ ~systemSuspended) =>
             IF kmListener /\ ~kmFallback
             THEN /\ keyboardRecoveryAttempts' = 0
                  /\ keyboardRecoveryTimer' = NoTimer /\ kbdTimers' = {}
                  /\ kbdProcs' = kbdProcs
                  /\ UNCHANGED <<kmActive, kmListener, kmFallback>>
             ELSE kbdProcs' = kbdProcs (+)
                      SetToBag({KbdProc("recovery", "stop",
                                        keyboardRecoveryAttempts + 1, kmSession)})
       /\ \A p \in BagToSet(kbdProcs') :
             (p.pc = "start" /\ CopiesIn(p, kbdProcs') > CopiesIn(p, kbdProcs)) =>
                 /\ lastLog'.ev = "kbdStopped"
                 /\ \E q \in BagToSet(kbdProcs) :
                       /\ q = KbdProc(p.kind, "stop", p.n, p.before)
                       /\ CopiesIn(q, kbdProcs') < CopiesIn(q, kbdProcs)]_vars

\* an attempt has found the listener healthy while the counter was not 0
C27_Witness ==
    /\ lastLog.ev = "kbdHealthy"
    /\ lastLog.by > 0
    /\ kmListener /\ ~kmFallback
    /\ keyboardRecoveryAttempts = 0
    /\ kbdTimers = {}

\* C28: the handler of a keyboard-fallback event arms the keyboard recovery
\* timer with delay 2000 ms when the system is not suspended, with the window
\* open, destroyed or null alike, and leaves the timers as they are when the
\* system is suspended
C28_FallbackArmsBaseTimer ==
    [][lastLog'.ev = "fallback" =>
          /\ emitted' = <<Event("keyboard-fallback", KeyboardFallbackData)>>
          /\ IF systemSuspended
             THEN UNCHANGED <<keyboardRecoveryTimer, kbdTimers>>
             ELSE /\ keyboardRecoveryTimer' = Timer(KEYBOARD_RECOVERY_BASE_DELAY_MS, 0)
                  /\ kbdTimers' = {keyboardRecoveryTimer'}]_vars

\* a fallback event has armed the 2000 ms timer with no window attached
C28_Witness ==
    /\ lastLog.ev = "fallback"
    /\ mainWindow = "null"
    /\ uiSent = << >>
    /\ ~systemSuspended
    /\ kbdTimers = {Timer(2000, 0)}
    /\ keyboardRecoveryTimer = Timer(2000, 0)

\* a keyboard restart or recovery attempt has just been made
KeyboardAttemptMade ==
    \/ lastLog.ev \in {"kbdStart", "kbdHealthy", "manualRestart"}
    \/ /\ lastLog.ev = "resume"
       /\ \E p \in BagToSet(kbdProcs) : p.kind = "restart" /\ p.pc = "stop"

\* C29: when the recovery timer callback is skipped because the system is
\* suspended while fallback mode is engaged, then, the system resuming, a
\* keyboard restart or recovery attempt is eventually made
C29_SkippedRecoveryIsDeferred ==
    (lastLog.ev = "kbdSkipped" /\ kmFallback) ~> KeyboardAttemptMade

\* C30: an attempt calls connectToDevice only with the port that
\* pendingResumePort holds and that getAvailablePorts() has just returned; an
\* attempt whose pending port is not among the returned ports calls no
\* connectToDevice and is handled as a failed attempt: the counter and the
\* pending port stay, and, below the limit and not suspended, the timer of the
\* next attempt is armed with the backoff delay
C30_ConnectsOnlyToEnumeratedPendingPort ==
    [][/\ \A p \in BagToSet(devProcs') :
             (p.pc = "connect" /\ CopiesIn(p, devProcs') > CopiesIn(p, devProcs)) =>
                 /\ p.port # NoPort
                 /\ p.port = pendingResumePort
                 /\ p.port \in availablePorts
       /\ \A p \in BagToSet(devProcs) :
             (/\ p.pc = "ports"
              /\ CopiesIn(p, devProcs') < CopiesIn(p, devProcs)
              /\ pendingResumePort \notin availablePorts) =>
                 /\ \A q \in BagToSet(devProcs') :
                       q.pc = "connect" => CopiesIn(q, devProcs') <= CopiesIn(q, devProcs)
                 /\ lastLog'.ev \in {"devFailed", "devExhausted"}
                 /\ lastLog'.n = p.n
                 /\ UNCHANGED <<resumeReconnectAttempts, pendingResumePort>>
                 /\ (p.n < RESUME_RETRY_LIMIT /\ ~systemSuspended) =>
                       /\ resumeReconnectTimer' = Timer(ResumeNextDelay(p.n), p.n)
                       /\ devTimers' = {resumeReconnectTimer'}]_vars

\* the first attempt after a resume found the pending port missing from the
\* enumerated ports and armed the next attempt
C30_Witness ==
    /\ lastLog.ev = "devFailed"
    /\ lastLog.n = 1
    /\ lastLog.why = NotYetAvailable
    /\ pendingResumePort = 1
    /\ availablePorts = {}
    /\ devProcs = EmptyBag
    /\ devTimers = {Timer(1000, 1)}

C32_OnlySupervisorWritesPendingPort ==
    [][pendingResumePort' # pendingResumePort =>
          lastLog'.ev \in {"suspend", "devAlreadyConnected", "devReconnected",
                           "devNoSuccess"}]_vars

\* the steps that end a subsystem's recovery with success, and the manual
\* forced restart
DeviceRecovered ==
    lastLog'.ev \in {"devReconnected", "devNoSuccess", "devAlreadyConnected"}
KeyboardRecoveredOrForced ==
    lastLog'.ev \in {"kbdRecovered", "kbdHealthy", "restarted", "manualRestart",
                     "manualRestarted"}

\* C33 as stated: an attempt counter returns to 0 only when the recovery of
\* its subsystem succeeds or on a manual forced restart, and neither a suspend
\* nor a resume notification resets a counter
C33_CountersResetOnlyOnRecovery ==
    [][/\ (resumeReconnectAttempts > 0 /\ resumeReconnectAttempts' = 0) => DeviceRecovered
       /\ (keyboardRecoveryAttempts > 0 /\ keyboardRecoveryAttempts' = 0) =>
              KeyboardRecoveredOrForced]_vars

\* C33: keyboardRecoveryAttempts returns to 0 only when a recovery or restart
\* of the keyboard monitor ends without error or on a manual forced restart;
\* resumeReconnectAttempts returns to 0 when a reconnect attempt ends without
\* error and also at every suspend and every resume notification, which leave
\* keyboardRecoveryAttempts unchanged
C33_CountersResetOnRecoveryAndPowerEvents ==
    [][/\ (resumeReconnectAttempts > 0 /\ resumeReconnectAttempts' = 0) =>
              (DeviceRecovered \/ lastLog'.ev \in {"suspend", "resume"})
       /\ (keyboardRecoveryAttempts > 0 /\ keyboardRecoveryAttempts' = 0) =>
              KeyboardRecoveredOrForced
       /\ lastLog'.ev \in {"suspend", "resume"} =>
              /\ resumeReconnectAttempts' = 0
              /\ keyboardRecoveryAttempts' = keyboardRecoveryAttempts]_vars

\* a suspend has reset resumeReconnectAttempts while the second attempt of the
\* run was awaiting a collaborator, the keyboard supervisor being idle
C33_Witness ==
    /\ lastLog.ev = "suspend"
    /\ resumeReconnectAttempts = 0
    /\ \E p \in BagToSet(devProcs) : p.n = 2

\* the steps of a device reconnect attempt, and of a keyboard recovery attempt
\* or keyboard restart
DeviceAttemptStep ==
    lastLog'.ev \in {"devSkipped", "devAlreadyConnected", "devStart", "devConnecting",
                     "devFailed", "devExhausted", "devReconnected", "devNoSuccess"}
KeyboardAttemptStep ==
    lastLog'.ev \in {"kbdSkipped", "kbdHealthy", "kbdStart", "kbdStopped", "kbdFailed",
                     "kbdExhausted", "kbdRecovered", "restarted", "restartFailed",
                     "manualRestarted", "manualRestartFailed"}

\* C34: every step of a device reconnect attempt leaves
\* keyboardRecoveryAttempts and the keyboard recovery timer unchanged, and
\* every step of a keyboard recovery attempt or keyboard restart leaves
\* resumeReconnectAttempts, the reconnect timer and pendingResumePort unchanged
C34_RetryBudgetsAreIndependent ==
    [][/\ DeviceAttemptStep =>
              UNCHANGED <<keyboardRecoveryAttempts, keyboardRecoveryTimer, kbdTimers>>
       /\ KeyboardAttemptStep =>
              UNCHANGED <<resumeReconnectAttempts, resumeReconnectTimer, devTimers,
                          pendingResumePort>>]_vars

\* a reconnect attempt has just failed and armed the timer of the next one
\* while the keyboard recovery timer is pending
C34_Witness ==
    /\ lastLog.ev = "devFailed"
    /\ resumeReconnectAttempts > 0
    /\ resumeReconnectTimer \in devTimers
    /\ resumeReconnectTimer.by > 0
    /\ keyboardRecoveryTimer \in kbdTimers

\* C35: no reconnect attempt calls connectToDevice while systemSuspended is
\* true, and none connects the device while it is true
C35_NoConnectWhileSuspended ==
    [][lastLog'.ev \in {"devConnecting", "devReconnected"} => ~systemSuspended]_vars

\* C36: a resume that follows a suspend arms the reconnect timer only if the
\* connection was live when the suspend arrived (the suspend handler
\* disconnected it, which emits connection-change) or a reconnect run was in
\* progress then (its timer armed or an attempt in flight)
C36_ReconnectOnlyRestoresLiveConnection ==
    [][(lastLog.ev = "suspend" /\ lastLog'.ev = "resume" /\ devTimers' # {}) =>
          \/ emitted # << >>
          \/ lastLog.d > 0
          \/ devProcs # EmptyBag]_vars

\* C37: whenever the keyboard monitor is in fallback mode, the system is not
\* suspended and keyboardRecoveryAttempts is below the limit, a keyboard
\* recovery timer is armed or a recovery or restart sequence is in flight
C37_RecoveryDoesNotStall ==
    (kmFallback /\ ~systemSuspended
     /\ keyboardRecoveryAttempts < KEYBOARD_RECOVERY_LIMIT) =>
        (kbdTimers # {} \/ kbdProcs # EmptyBag)

\* C38: at most one setInterval timer of the system monitor runs at any time,
\* and once stopMonitoring() has returned with no startMonitoring() at its
\* await none runs
C38_OneSamplingTimer ==
    /\ BagCardinality(systemMonitor.timers) <= 1
    /\ (lastLog.ev = "stopMonitoring" /\ systemMonitor.starting = 0) =>
           systemMonitor.timers = EmptyBag

====
